---- MODULE Spec2Model ----
(***************************************************************************)
(* typed-app-router (src/lib/index.ts, the typed variant, lines 229-691):  *)
(* the route-matching chain (PathHandler, ParamHandler, MultiParamHandler, *)
(* CallbackHandler, Subrouter) and the navigation sequencer                *)
(* (Router.navigate).                                                      *)
(*                                                                         *)
(* A JavaScript string is a sequence of one-character strings, so that     *)
(* split, filter, encodeURI and decodeURIComponent are computed. An object *)
(* used as a map is a function from its keys to its values. A Navigation   *)
(* is an index into navs (object identity), a Subrouter is an index into   *)
(* handlers. An async function runs without interruption from one await to *)
(* the next; the steps of a route walk between two callbacks read nothing  *)
(* another navigate call writes, so a walk is one computation up to the    *)
(* callback it invokes, and the awaited callback and the resumption of     *)
(* navigate after `await this.route(nav)` are steps of their own.          *)
(***************************************************************************)
EXTENDS Integers, Sequences, FiniteSets, TLC

VARIABLES
  handlers,    \* BaseRouter.handlers of every router; handlers[Root] is the Router's
  navs,        \* the Navigation objects constructed so far (url, path, query, cancelled)
  currentNav,  \* Router._currentNav (Null or a Navigation)
  nextNav,     \* Router.nextNav (Null or a Navigation)
  prevNavs,    \* Html5BrowserApi.prevNavs: the Navigations stored by setUrl
  calls,       \* the navigate calls made so far, each with its position and outcome
  href,        \* window.location.href
  cookies,     \* the document's cookies, by key (browser-cookies)
  ops,         \* the calls made on the FallbackBrowserApi so far
  thrown       \* the errors registration calls have thrown to their callers

vars ==
  <<handlers, navs, currentNav, nextNav, prevNavs, calls, href, cookies, ops, thrown>>

\* ------------------------------------------------------------------ bounds

\* navigate calls per behaviour of the sequencer
MaxCalls == 3
\* characters of a URL handed to navigate in the path scenarios
MaxUrlLen == 6
\* entries registered in a router tree by the registration actions
MaxEntries == 3

\* ----------------------------------------------------------------- strings

Null == 0
Root == 1

Min(a, b) == IF a < b THEN a ELSE b

RECURSIVE SplitAcc(_, _, _, _)
SplitAcc(s, sep, i, cur) ==
  IF i > Len(s) THEN <<cur>>
  ELSE IF s[i] = sep THEN <<cur>> \o SplitAcc(s, sep, i + 1, <<>>)
  ELSE SplitAcc(s, sep, i + 1, Append(cur, s[i]))

\* String.prototype.split with a one-character separator: every piece, the
\* empty ones included ("" splits into one empty piece).
split(s, sep) == SplitAcc(s, sep, 1, <<>>)

\* split(sep, limit): the first `limit` pieces of the full split; what follows
\* them is dropped, not kept in the last piece.
splitLimit(s, sep, limit) ==
  LET all == split(s, sep) IN SubSeq(all, 1, Min(limit, Len(all)))

IndexOf(s, ch) ==
  IF \E i \in 1..Len(s) : s[i] = ch
  THEN (CHOOSE i \in 1..Len(s) : s[i] = ch /\ \A j \in 1..(i - 1) : s[j] # ch) - 1
  ELSE -1

\* parts[i] || '' : a missing or empty piece reads as the empty string
OrEmpty(parts, i) == IF i <= Len(parts) THEN parts[i] ELSE <<>>

\* characters encodeURI leaves as they are (the ones this model's alphabets use)
UriKept == {"/", "?", "=", "&", "a", "b", "c", "4", "2", "0", "5"}

EncodeChar(ch) ==
  IF ch \in UriKept THEN <<ch>>
  ELSE IF ch = "%" THEN <<"%", "2", "5">>
  ELSE <<"%", "2", "0">>

RECURSIVE encodeURI(_)
encodeURI(s) ==
  IF s = <<>> THEN <<>> ELSE EncodeChar(Head(s)) \o encodeURI(Tail(s))

RECURSIVE decodeURIComponent(_)
decodeURIComponent(s) ==
  IF s = <<>> THEN <<>>
  ELSE IF Head(s) = "%" /\ Len(s) >= 3 /\ SubSeq(s, 2, 3) = <<"2", "5">>
       THEN <<"%">> \o decodeURIComponent(SubSeq(s, 4, Len(s)))
  ELSE IF Head(s) = "%" /\ Len(s) >= 3 /\ SubSeq(s, 2, 3) = <<"2", "0">>
       THEN <<" ">> \o decodeURIComponent(SubSeq(s, 4, Len(s)))
  ELSE <<Head(s)>> \o decodeURIComponent(Tail(s))

\* ------------------------------------------------------------- Navigation

EmptyObject == [k \in {} |-> <<>>]

\* obj[k] = v
SetKey(obj, k, v) ==
  [x \in (DOMAIN obj) \cup {k} |-> IF x = k THEN v ELSE obj[x]]

\* Object.assign({}, a, b)
Assign(a, b) ==
  [x \in (DOMAIN a) \cup (DOMAIN b) |-> IF x \in DOMAIN b THEN b[x] ELSE a[x]]

RECURSIVE ParseQuery(_, _, _)
ParseQuery(queryPairs, i, query) ==
  IF i > Len(queryPairs) THEN query
  ELSE LET splitPair == splitLimit(queryPairs[i], "=", 2)
           key == OrEmpty(splitPair, 1)
           value == OrEmpty(splitPair, 2)
       IN ParseQuery(queryPairs, i + 1,
                     SetKey(query, decodeURIComponent(key), decodeURIComponent(value)))

\* new Navigation(url, path, query): cancelled defaults to false
Navigation(url, path, query) ==
  [url |-> url, path |-> path, query |-> query, cancelled |-> FALSE]

createFromUrl(rawUrl) ==
  LET url == encodeURI(rawUrl) IN
  IF IndexOf(url, "?") >= 0
  THEN LET parts == splitLimit(url, "?", 2)
           path == OrEmpty(parts, 1)
           queryString == OrEmpty(parts, 2)
           queryPairs == split(queryString, "&")
       IN Navigation(url, path, ParseQuery(queryPairs, 1, EmptyObject))
  ELSE Navigation(url, url, EmptyObject)

\* ----------------------------------------------------- parameter values

\* A value bound to a parameter: the raw segment (a string), a converted
\* number, or the array of segments.
StrVal(s) == [t |-> "string", n |-> 0, s |-> s, a |-> <<>>]
NumVal(n) == [t |-> "number", n |-> n, s |-> <<>>, a |-> <<>>]
ArrVal(a) == [t |-> "array", n |-> 0, s |-> <<>>, a |-> a]

Digits == {"0", "2", "4", "5"}

DigitValue(ch) == CASE ch = "0" -> 0 [] ch = "2" -> 2 [] ch = "4" -> 4 [] OTHER -> 5

RECURSIVE ToNumber(_, _)
ToNumber(s, acc) ==
  IF s = <<>> THEN acc ELSE ToNumber(Tail(s), acc * 10 + DigitValue(Head(s)))

IsNumeric(s) == Len(s) > 0 /\ \A i \in 1..Len(s) : s[i] \in Digits

\* The validators handed to param and multiparam: an object with one
\* validating function per declared name.
\* idValidator accepts a numeric string and converts it to the number.
idValidator == [names |-> <<"id">>, kind |-> "numeric"]
\* segmentsValidator accepts an array none of whose items is numeric.
segmentsValidator == [names |-> <<"segments">>, kind |-> "letters"]

\* keysOf(validator): the declared names, in order
keysOf(validator) == validator.names

\* validate(obj, conformsTo(validator)) of typed-validation, for an object
\* with the one field `key`: the field's validating function decides, and the
\* value of a success is the object of converted fields.
validate(obj, key, validator) ==
  LET raw == obj[key] IN
  CASE validator.kind = "numeric" ->
         IF raw.t = "string" /\ IsNumeric(raw.s)
         THEN [success |-> TRUE, value |-> SetKey(EmptyObject, key, NumVal(ToNumber(raw.s, 0)))]
         ELSE [success |-> FALSE, value |-> EmptyObject]
    [] OTHER ->
         IF raw.t = "array" /\ \A i \in 1..Len(raw.a) : ~IsNumeric(raw.a[i])
         THEN [success |-> TRUE, value |-> SetKey(EmptyObject, key, raw)]
         ELSE [success |-> FALSE, value |-> EmptyObject]

\* ------------------------------------------------------------ the handlers

NonEmpty(component) == Len(component) # 0

\* new PathHandler(path, next)
PathHandler(path, next) ==
  [kind |-> "path", pathComponents |-> SelectSeq(split(path, "/"), NonEmpty),
   key |-> "", validator |-> idValidator, next |-> next,
   callback |-> "", ignoreAdditionalPath |-> FALSE]

\* new ParamHandler(validator, next); BaseParamHandler's constructor sets key
ParamHandler(validator, next) ==
  [kind |-> "param", pathComponents |-> <<>>,
   key |-> keysOf(validator)[1], validator |-> validator, next |-> next,
   callback |-> "", ignoreAdditionalPath |-> FALSE]

\* new MultiParamHandler(arrayValidator, next)
MultiParamHandler(arrayValidator, next) ==
  [kind |-> "multiparam", pathComponents |-> <<>>,
   key |-> keysOf(arrayValidator)[1], validator |-> arrayValidator, next |-> next,
   callback |-> "", ignoreAdditionalPath |-> FALSE]

\* Partial<ICallbackHandlerOptions>: {} or {ignoreAdditionalPath: b}
NoOptions == [k \in {} |-> FALSE]
IgnoreAdditionalPath(b) == [k \in {"ignoreAdditionalPath"} |-> b]

\* new CallbackHandler(callback, options): {ignoreAdditionalPath: false, ...options}
CallbackHandler(callback, options) ==
  [kind |-> "callback", pathComponents |-> <<>>,
   key |-> "", validator |-> idValidator, next |-> Null,
   callback |-> callback,
   ignoreAdditionalPath |-> Assign(IgnoreAdditionalPath(FALSE), options)["ignoreAdditionalPath"]]

\* What a route walk did: whether it was handled, the entries it attempted
\* (in the order it reached them, each with what it was handed and how it
\* ended), the validators it consulted and the callbacks it invoked.
NoMatch == [handled |-> FALSE, attempts |-> <<>>, validated |-> <<>>, invoked |-> <<>>]

RECURSIVE RouteEntries(_, _, _, _, _, _)

\* Subrouter.route(nav, params, subpath) of the router h[r]
Subrouter_route(h, r, nav, params, subpath) ==
  RouteEntries(h, r, 1, nav, params, subpath)

\* faulty variant: the first component is not compared
PathHandler_routeSkipFirst(h, e, nav, params, subpath) ==
  IF Len(subpath) < Len(e.pathComponents) THEN NoMatch
  ELSE IF \E i \in 2..Len(e.pathComponents) : subpath[i] # e.pathComponents[i]
       THEN NoMatch
  ELSE Subrouter_route(h, e.next, nav, params,
                       SubSeq(subpath, Len(e.pathComponents) + 1, Len(subpath)))

PathHandler_route(h, e, nav, params, subpath) ==
  IF Len(subpath) < Len(e.pathComponents) THEN NoMatch
  ELSE IF \E i \in 1..Len(e.pathComponents) : subpath[i] # e.pathComponents[i]
       THEN NoMatch
  ELSE Subrouter_route(h, e.next, nav, params,
                       SubSeq(subpath, Len(e.pathComponents) + 1, Len(subpath)))

\* faulty variant: the raw object is passed on, not the validated value
ParamHandler_validateRaw(e, subpath) ==
  [result |-> [success |-> validate(SetKey(EmptyObject, e.key, StrVal(subpath[1])),
                                    e.key, e.validator).success,
               value |-> SetKey(EmptyObject, e.key, StrVal(subpath[1]))],
   newSubpath |-> Tail(subpath)]

ParamHandler_validate(e, subpath) ==
  [result |-> validate(SetKey(EmptyObject, e.key, StrVal(subpath[1])), e.key, e.validator),
   newSubpath |-> Tail(subpath)]

\* faulty variant: only the first remaining segment is taken
MultiParamHandler_validateFirst(e, subpath) ==
  [result |-> validate(SetKey(EmptyObject, e.key, ArrVal(<<subpath[1]>>)), e.key, e.validator),
   newSubpath |-> Tail(subpath)]

\* faulty variant: the segments handed to the validator are also passed on
MultiParamHandler_validateKeepRest(e, subpath) ==
  [result |-> validate(SetKey(EmptyObject, e.key, ArrVal(subpath)), e.key, e.validator),
   newSubpath |-> subpath]

MultiParamHandler_validate(e, subpath) ==
  [result |-> validate(SetKey(EmptyObject, e.key, ArrVal(subpath)), e.key, e.validator),
   newSubpath |-> <<>>]

\* faulty variant: Object.assign({}, result.value, params)
BaseParamHandler_routeKeepEarlier(h, e, nav, params, subpath) ==
  IF Len(subpath) = 0 THEN NoMatch
  ELSE LET v == IF e.kind = "param" THEN ParamHandler_validate(e, subpath)
                ELSE MultiParamHandler_validate(e, subpath)
           consulted == <<[validator |-> e.validator, subpath |-> subpath]>>
       IN IF ~v.result.success
          THEN [NoMatch EXCEPT !.validated = consulted]
          ELSE LET rest == Subrouter_route(h, e.next, nav,
                                           Assign(v.result.value, params), v.newSubpath)
               IN [rest EXCEPT !.validated = consulted \o @]

BaseParamHandler_route(h, e, nav, params, subpath) ==
  IF Len(subpath) = 0 THEN NoMatch
  ELSE LET v == IF e.kind = "param" THEN ParamHandler_validate(e, subpath)
                ELSE MultiParamHandler_validate(e, subpath)
           consulted == <<[validator |-> e.validator, subpath |-> subpath]>>
       IN IF ~v.result.success
          THEN [NoMatch EXCEPT !.validated = consulted]
          ELSE LET rest == Subrouter_route(h, e.next, nav,
                                           Assign(params, v.result.value), v.newSubpath)
               IN [rest EXCEPT !.validated = consulted \o @]

\* faulty variant: the callback runs and the handler reports no match
CallbackHandler_routeDeclines(e, nav, params, subpath) ==
  IF ~e.ignoreAdditionalPath /\ Len(subpath) # 0 THEN NoMatch
  ELSE [handled |-> FALSE, attempts |-> <<>>, validated |-> <<>>,
        invoked |-> <<[callback |-> e.callback, nav |-> nav, params |-> params]>>]

\* faulty variant: ignoreAdditionalPath is not read
CallbackHandler_routeStrict(e, nav, params, subpath) ==
  IF Len(subpath) # 0 THEN NoMatch
  ELSE [handled |-> TRUE, attempts |-> <<>>, validated |-> <<>>,
        invoked |-> <<[callback |-> e.callback, nav |-> nav, params |-> params]>>]

CallbackHandler_route(e, nav, params, subpath) ==
  IF ~e.ignoreAdditionalPath /\ Len(subpath) # 0 THEN NoMatch
  ELSE [handled |-> TRUE, attempts |-> <<>>, validated |-> <<>>,
        invoked |-> <<[callback |-> e.callback, nav |-> nav, params |-> params]>>]

\* handler.route(nav, params, subpath), by the handler's class
Handler_route(h, e, nav, params, subpath) ==
  CASE e.kind = "path" -> PathHandler_route(h, e, nav, params, subpath)
    [] e.kind = "callback" -> CallbackHandler_route(e, nav, params, subpath)
    [] OTHER -> BaseParamHandler_route(h, e, nav, params, subpath)

\* faulty variant: the loop does not return at the first success
RouteEntriesNoReturn(h, r, i, nav, params, subpath) ==
  IF i > Len(h[r]) THEN NoMatch
  ELSE LET res == Handler_route(h, h[r][i], nav, params, subpath)
           attempt == [router |-> r, index |-> i, subpath |-> subpath,
                       params |-> params, ok |-> res.handled]
           rest == RouteEntries(h, r, i + 1, nav, params, subpath)
       IN [handled |-> res.handled \/ rest.handled,
           attempts |-> <<attempt>> \o res.attempts \o rest.attempts,
           validated |-> res.validated \o rest.validated,
           invoked |-> res.invoked \o rest.invoked]

\* faulty variant: the next entry gets what is left after the failed entry's
\* first segment
RouteEntriesConsumed(h, r, i, nav, params, subpath) ==
  IF i > Len(h[r]) THEN NoMatch
  ELSE LET res == Handler_route(h, h[r][i], nav, params, subpath)
           attempt == [router |-> r, index |-> i, subpath |-> subpath,
                       params |-> params, ok |-> res.handled]
       IN IF res.handled
          THEN [res EXCEPT !.attempts = <<attempt>> \o @]
          ELSE LET rest == RouteEntries(h, r, i + 1, nav, params,
                                        IF subpath = <<>> THEN subpath ELSE Tail(subpath))
               IN [handled |-> rest.handled,
                   attempts |-> <<attempt>> \o res.attempts \o rest.attempts,
                   validated |-> res.validated \o rest.validated,
                   invoked |-> res.invoked \o rest.invoked]

\* The loop of Subrouter.route and of Router.route from entry i on:
\* for (const handler of this.handlers) if (await handler.route(..)) return true
RouteEntries(h, r, i, nav, params, subpath) ==
  IF i > Len(h[r]) THEN NoMatch
  ELSE LET res == Handler_route(h, h[r][i], nav, params, subpath)
           attempt == [router |-> r, index |-> i, subpath |-> subpath,
                       params |-> params, ok |-> res.handled]
       IN IF res.handled
          THEN [res EXCEPT !.attempts = <<attempt>> \o @]
          ELSE LET rest == RouteEntries(h, r, i + 1, nav, params, subpath)
               IN [handled |-> rest.handled,
                   attempts |-> <<attempt>> \o res.attempts \o rest.attempts,
                   validated |-> res.validated \o rest.validated,
                   invoked |-> res.invoked \o rest.invoked]

\* faulty variant: the empty segments are kept
Router_routeKeepEmpty(h, nav, path) ==
  RouteEntries(h, Root, 1, nav, EmptyObject, split(path, "/"))

\* Router.route(nav): the path is segmented once, here
Router_route(h, nav, path) ==
  LET pathComponents == SelectSeq(split(path, "/"), NonEmpty)
  IN RouteEntries(h, Root, 1, nav, EmptyObject, pathComponents)

\* ------------------------------------------------------------ registration

\* a Router just constructed: no entries
EmptyRouter == <<<<>>>>

NumEntries(h) ==
  LET RECURSIVE Sum(_)
      Sum(r) == IF r > Len(h) THEN 0 ELSE Len(h[r]) + Sum(r + 1)
  IN Sum(1)

\* BaseRouter.path(path) on router r: the new Subrouter is Len(h) + 1
path(h, r, p) ==
  [Append(h, <<>>) EXCEPT ![r] = Append(h[r], PathHandler(p, Len(h) + 1))]

\* BaseRouter.register(callback, options) on router r
register(h, r, callback, options) ==
  [h EXCEPT ![r] = Append(h[r], CallbackHandler(callback, options))]

\* BaseParamHandler's constructor: if (keys.length !== 1) throw new Error(..)
BaseParamHandler_throws(validator) == Len(keysOf(validator)) # 1

\* the message's `got ${keys.length}`
ExpectedOneValidator(validator) == [got |-> Len(keysOf(validator))]

\* faulty variant: the entry is pushed whatever the constructor's check says
paramPushAnyway(h, r, validator) ==
  [Append(h, <<>>) EXCEPT ![r] =
     Append(h[r], [kind |-> "param", pathComponents |-> <<>>,
                   key |-> IF keysOf(validator) = <<>> THEN "" ELSE keysOf(validator)[1],
                   validator |-> validator, next |-> Len(h) + 1,
                   callback |-> "", ignoreAdditionalPath |-> FALSE])]

\* BaseRouter.param(validator) on router r: `new ParamHandler(..)` is evaluated
\* before push is called, so a throwing constructor leaves handlers as it was
param(h, r, validator) ==
  IF BaseParamHandler_throws(validator) THEN h
  ELSE [Append(h, <<>>) EXCEPT ![r] = Append(h[r], ParamHandler(validator, Len(h) + 1))]

\* BaseRouter.multiparam(validator) on router r
multiparam(h, r, validator) ==
  IF BaseParamHandler_throws(validator) THEN h
  ELSE [Append(h, <<>>) EXCEPT ![r] =
          Append(h[r], MultiParamHandler(validator, Len(h) + 1))]

\* ----------------------------------------------------------- the sequencer

\* faulty variant: the guard is missing
NoRoutesNever(h) == FALSE

\* if (this.handlers.length === 0) return false
NoRoutes(h) == Len(h[Root]) = 0

\* faulty variant: every Navigation is marked, not the pending one
CancelEvery(ns, pending) ==
  IF pending # Null THEN [n \in DOMAIN ns |-> [ns[n] EXCEPT !.cancelled = TRUE]] ELSE ns

\* if (this.nextNav !== null) this.nextNav.cancelled = true
CancelPending(ns, pending) ==
  IF pending # Null THEN [ns EXCEPT ![pending].cancelled = TRUE] ELSE ns

\* faulty variant: the cancelled flag is not read
ShouldCommitIgnoringCancel(handled, cancelled) == handled

\* if (handled && !nav.cancelled)
ShouldCommit(handled, cancelled) == handled /\ ~cancelled

\* faulty variant: returns whether the navigation was committed
ReturnValueCommitted(handled, cancelled) == handled /\ ~cancelled

\* return handled
ReturnValue(handled, cancelled) == handled

\* faulty variant: emits before it assigns
setCurrentNavEmitFirst(cur, nav) ==
  [currentNav |-> nav,
   emitted |-> <<[type |-> "navigated", nav |-> nav, currentNav |-> cur]>>]

\* Router.setCurrentNav(nav): assigns, then emits navigatedEvent; the event
\* records the currentNav its listeners observe.
setCurrentNav(cur, nav) ==
  [currentNav |-> nav,
   emitted |-> <<[type |-> "navigated", nav |-> nav, currentNav |-> nav]>>]

\* Html5BrowserApi.setUrl(nav): prevNavs.set(id, nav) under a fresh id, pushState
Html5BrowserApi_setUrl(prev, nav) == prev \cup {nav}

\* this.setCurrentNav(nav); this.browserApi.setUrl(nav): what the commit does,
\* in order.
CommitEffects(cur, nav) ==
  LET set == setCurrentNav(cur, nav)
  IN set.emitted \o <<[type |-> "setUrl", nav |-> nav, currentNav |-> set.currentNav]>>

Routing(c) == calls[c].pc \in {"callback", "resume"}

\* Router.navigate(url) up to `await this.route(nav)`: `fresh` tells a URL string
\* (a Navigation is constructed) from a Navigation object n handed in.
NavigateStart(fresh, url, n, origin) ==
  /\ Len(calls) < MaxCalls
  /\ IF NoRoutes(handlers)
     THEN /\ calls' = Append(calls, [nav |-> Null, pc |-> "returned", walk |-> NoMatch,
                                     result |-> FALSE, effects |-> <<>>,
                                     superseded |-> FALSE, origin |-> origin,
                                     url |-> url, rejected |-> FALSE])
          /\ UNCHANGED <<navs, nextNav>>
     ELSE LET cancelledNavs == CancelPending(navs, nextNav)
              newNavs == IF fresh THEN Append(cancelledNavs, createFromUrl(url))
                         ELSE cancelledNavs
              nav == IF fresh THEN Len(newNavs) ELSE n
              walk == Router_route(handlers, nav, newNavs[nav].path)
          IN /\ navs' = newNavs
             /\ nextNav' = nav
             /\ calls' = Append(
                  [c \in DOMAIN calls |->
                     IF Routing(c) THEN [calls[c] EXCEPT !.superseded = TRUE] ELSE calls[c]],
                  [nav |-> nav,
                   pc |-> IF walk.invoked # <<>> THEN "callback" ELSE "resume",
                   walk |-> walk, result |-> FALSE, effects |-> <<>>,
                   superseded |-> FALSE, origin |-> origin,
                   url |-> IF fresh THEN url ELSE newNavs[nav].url,
                   rejected |-> FALSE])
  /\ UNCHANGED <<handlers, currentNav, prevNavs, href, cookies, ops, thrown>>

\* the application calls router.navigate(url) with a URL string
Navigate(url) == NavigateStart(TRUE, url, Null, "caller")

\* window.onpopstate finds the Navigation stored under the entry's id and emits
\* it on the adapter's navigatedEvent; the router's listener calls navigate(nav)
PopState(n) == NavigateStart(FALSE, <<>>, n, "adapter")

\* the callback the walk invoked completes: CallbackHandler.route returns true
CallbackDone(c) ==
  /\ calls[c].pc = "callback"
  /\ calls' = [calls EXCEPT ![c].pc = "resume"]
  /\ UNCHANGED <<handlers, navs, currentNav, nextNav, prevNavs, href, cookies, ops, thrown>>

\* faulty variant: the rejection is swallowed and navigate resumes
RejectionSwallowed == "resume"

\* where a navigate call is once `await this.route(nav)` has rejected: no
\* try/catch surrounds an await on the way, the call ends with the rejection
Rejection == "failed"

\* the callback throws or its promise rejects: the rejection passes every
\* await up to navigate's, and navigate's caller gets it
CallbackFail(c) ==
  /\ calls[c].pc = "callback"
  /\ calls' = [calls EXCEPT ![c].pc = Rejection, ![c].rejected = TRUE]
  /\ UNCHANGED <<handlers, navs, currentNav, nextNav, prevNavs, href, cookies, ops, thrown>>

\* Router.navigate from the resumption after `await this.route(nav)` to its return
Finish(c) ==
  /\ calls[c].pc = "resume"
  /\ LET nav == calls[c].nav
         handled == calls[c].walk.handled
         commit == ShouldCommit(handled, navs[nav].cancelled)
     IN /\ nextNav' = Null
        /\ currentNav' = IF commit THEN setCurrentNav(currentNav, nav).currentNav
                         ELSE currentNav
        /\ prevNavs' = IF commit THEN Html5BrowserApi_setUrl(prevNavs, nav) ELSE prevNavs
        /\ calls' = [calls EXCEPT
                       ![c].pc = "returned",
                       ![c].result = ReturnValue(handled, navs[nav].cancelled),
                       ![c].effects = IF commit THEN CommitEffects(currentNav, nav) ELSE <<>>]
  /\ UNCHANGED <<handlers, navs, href, cookies, ops, thrown>>

\* ------------------------------------------------- the fallback adapter

\* window.location.origin
Origin == <<"h", ":">>

FALLBACK_COOKIE_KEY == "__app_history__"

\* currentPath(): window.location.href.substr(window.location.origin.length)
currentPath(h) == SubSeq(h, Len(Origin) + 1, Len(h))

\* the last index of ch in s, 0 when there is none
LastIndexOf(s, ch) ==
  IF \E i \in 1..Len(s) : s[i] = ch
  THEN CHOOSE i \in 1..Len(s) : s[i] = ch /\ \A j \in (i + 1)..Len(s) : s[j] # ch
  ELSE 0

\* window.location.href = url, for a URL without dot segment: a URL that
\* starts with '/' replaces the path, the empty URL leaves the location, and
\* any other URL replaces what follows the last '/' of the location's path
SetHref(h, url) ==
  IF url = <<>> THEN h
  ELSE IF Head(url) = "/" THEN Origin \o url
  ELSE Origin \o SubSeq(currentPath(h), 1, LastIndexOf(currentPath(h), "/")) \o url

RECURSIVE join(_, _)
\* Array.prototype.join
join(arr, sep) ==
  IF arr = <<>> THEN <<>>
  ELSE IF Len(arr) = 1 THEN arr[1]
  ELSE arr[1] \o <<sep>> \o join(Tail(arr), sep)

\* FallbackBrowserApi.getHistory(): cookies.get returns null for a missing key
getHistory(jar) ==
  IF FALLBACK_COOKIE_KEY \notin DOMAIN jar THEN <<>>
  ELSE split(jar[FALLBACK_COOKIE_KEY], "|")

\* cookies.erase(key)
Erase(jar, key) == [k \in (DOMAIN jar) \ {key} |-> jar[k]]

\* FallbackBrowserApi.setHistory(hist)
setHistory(jar, hist) ==
  IF Len(hist) = 0 THEN Erase(jar, FALLBACK_COOKIE_KEY)
  ELSE SetKey(jar, FALLBACK_COOKIE_KEY, join(hist, "|"))

\* faulty variant: the location is not compared with the target
FallbackBrowserApi_setUrlAlways(h, jar, nav) ==
  [href |-> SetHref(h, nav.url),
   cookies |-> setHistory(jar, Append(getHistory(jar), currentPath(h)))]

\* FallbackBrowserApi.setUrl(nav): the location and the cookies it leaves
FallbackBrowserApi_setUrl(h, jar, nav) ==
  IF currentPath(h) # nav.url
  THEN [href |-> SetHref(h, nav.url),
        cookies |-> setHistory(jar, Append(getHistory(jar), currentPath(h)))]
  ELSE [href |-> h, cookies |-> jar]

\* FallbackBrowserApi.back(): hist.pop() of an empty array is undefined
FallbackBrowserApi_back(h, jar) ==
  LET hist == getHistory(jar) IN
  IF Len(hist) > 0
  THEN [href |-> SetHref(h, hist[Len(hist)]),
        cookies |-> setHistory(jar, SubSeq(hist, 1, Len(hist) - 1))]
  ELSE [href |-> h, cookies |-> jar]

\* FallbackBrowserApi.clearHistory()
FallbackBrowserApi_clearHistory(h, jar) ==
  [href |-> h, cookies |-> setHistory(jar, <<>>)]

\* ------------------------------------------------------ assembled routers

\* path("a/b").register(cb1, options)
LiteralRouter(options) ==
  register(path(EmptyRouter, Root, <<"a", "/", "b">>), 2, "cb1", options)

\* path("a").param(idValidator).register(cb1): the scenario's "users" is "a"
UsersRouter ==
  register(param(path(EmptyRouter, Root, <<"a">>), 2, idValidator), 3, "cb1", NoOptions)

\* path("a").multiparam(segmentsValidator).register(cb1): "files" is "a"
FilesRouter ==
  register(multiparam(path(EmptyRouter, Root, <<"a">>), 2, segmentsValidator),
           3, "cb1", NoOptions)

\* path("a").register(cb1); register(cb2)
SiblingsRouter ==
  register(register(path(EmptyRouter, Root, <<"a">>), 2, "cb1", NoOptions),
           Root, "cb2", NoOptions)

\* ------------------------------------------------- the sequencer's behaviours

SeqRouters == {EmptyRouter, SiblingsRouter}

SeqUrls == {<<"/", "a">>, <<"/", "b">>, <<"/">>}

Init ==
  /\ handlers \in SeqRouters
  /\ navs = <<>>
  /\ currentNav = Null
  /\ nextNav = Null
  /\ prevNavs = {}
  /\ calls = <<>>
  /\ href = Origin \o <<"/">>
  /\ cookies = EmptyObject
  /\ ops = <<>>
  /\ thrown = <<>>

Next ==
  \/ \E url \in SeqUrls : Navigate(url)
  \/ \E n \in prevNavs : PopState(n)
  \/ \E c \in DOMAIN calls : CallbackDone(c)
  \/ \E c \in DOMAIN calls : CallbackFail(c)
  \/ \E c \in DOMAIN calls : Finish(c)

Spec == Init /\ [][Next]_vars

\* ------------------------------------------------- claims on the sequencer

Committed(c) == calls[c].effects # <<>>

Finishes(c) == calls[c].pc = "resume" /\ calls'[c].pc = "returned"

Matched(c) == Len(calls[c].walk.invoked) > 0

\* C1: a navigate call during whose route walk a later navigate call was
\* issued never commits: it never sets currentNav, never fires navigated and
\* never calls setUrl, in whatever order the route walks finish.
C1_SupersededNeverCommits ==
  \A c \in DOMAIN calls : calls[c].superseded => ~Committed(c)

C3_CommitInOneStep ==
  [][\A c \in DOMAIN calls :
       (Finishes(c) /\ Matched(c) /\ ~navs[calls[c].nav].cancelled) =>
          /\ currentNav' = calls[c].nav
          /\ calls'[c].effects =
               <<[type |-> "navigated", nav |-> calls[c].nav, currentNav |-> calls[c].nav],
                 [type |-> "setUrl", nav |-> calls[c].nav, currentNav |-> calls[c].nav]>>
          /\ calls[c].nav \in prevNavs'
          /\ calls'[c].result]_vars

C3_Witness ==
  \E c \in DOMAIN calls :
    /\ calls[c].pc = "returned"
    /\ Committed(c)
    /\ currentNav = calls[c].nav

\* C4: a call that matched no route, or whose Navigation is cancelled as
\* navigate resumes, changes neither currentNav nor the adapter and fires
\* nothing, in the step that starts it and in the step that ends it.
C4_NoCommitNoEffect ==
  [][/\ \A c \in DOMAIN calls :
          (Finishes(c) /\ ~(Matched(c) /\ ~navs[calls[c].nav].cancelled)) =>
             /\ currentNav' = currentNav
             /\ prevNavs' = prevNavs
             /\ calls'[c].effects = <<>>
     /\ Len(calls') > Len(calls) =>
          /\ currentNav' = currentNav
          /\ prevNavs' = prevNavs
          /\ calls'[Len(calls')].effects = <<>>]_vars

C4_Witness ==
  /\ currentNav # Null
  /\ \E c \in DOMAIN calls :
       /\ calls[c].pc = "returned"
       /\ Matched(c)
       /\ navs[calls[c].nav].cancelled
       /\ ~Committed(c)
       /\ currentNav # calls[c].nav
  /\ \E c \in DOMAIN calls :
       /\ calls[c].pc = "returned"
       /\ calls[c].nav # Null
       /\ ~Matched(c)

\* C5: cancelled is false at construction, is written only by a starting
\* navigate call, on the Navigation that is pending then, and once true stays
\* true, also when the same Navigation is handed to navigate again.
C5_CancelledMonotone ==
  [][/\ \A n \in DOMAIN navs : navs[n].cancelled => navs'[n].cancelled
     /\ \A n \in (DOMAIN navs') \ (DOMAIN navs) : ~navs'[n].cancelled
     /\ \A n \in DOMAIN navs :
          navs'[n].cancelled # navs[n].cancelled =>
            (n = nextNav /\ Len(calls') > Len(calls))]_vars

C5_Witness ==
  \E c, d \in DOMAIN calls :
    /\ c < d
    /\ calls[c].nav = calls[d].nav
    /\ calls[d].nav # Null
    /\ navs[calls[d].nav].cancelled
    /\ calls[d].pc = "returned"

\* C6: navigate on a router with no entry at its root returns false at once:
\* no Navigation is constructed, none is marked cancelled, the pending
\* pointer and currentNav stay, nothing fires and the adapter is not called.
C6_NoRoutesNoEffect ==
  [][(Len(calls') > Len(calls) /\ Len(handlers[Root]) = 0) =>
       /\ calls'[Len(calls')].pc = "returned"
       /\ ~calls'[Len(calls')].result
       /\ calls'[Len(calls')].nav = Null
       /\ calls'[Len(calls')].effects = <<>>
       /\ navs' = navs
       /\ nextNav' = nextNav
       /\ currentNav' = currentNav
       /\ prevNavs' = prevNavs
       /\ \A c \in DOMAIN calls : calls'[c] = calls[c]]_vars

C6_Witness ==
  /\ Len(handlers[Root]) = 0
  /\ Len(calls) > 0
  /\ calls[1].pc = "returned"

\* ------------------------------------------------------ the path scenarios

\* One navigate call on an assembled router, for every URL of the alphabet.
PathAlphabet == {"/", "a", "b", "4"}

PathUrls == UNION {[1..n -> PathAlphabet] : n \in 0..MaxUrlLen}

PathRouters ==
  {LiteralRouter(IgnoreAdditionalPath(TRUE)), LiteralRouter(NoOptions),
   UsersRouter, FilesRouter}

FirstCall == calls = <<>>

InitPath ==
  /\ handlers \in PathRouters
  /\ navs = <<>>
  /\ currentNav = Null
  /\ nextNav = Null
  /\ prevNavs = {}
  /\ calls = <<>>
  /\ href = Origin \o <<"/">>
  /\ cookies = EmptyObject
  /\ ops = <<>>
  /\ thrown = <<>>

NextPath ==
  \/ FirstCall /\ \E url \in PathUrls : Navigate(url)
  \/ \E c \in DOMAIN calls : CallbackDone(c)
  \/ \E c \in DOMAIN calls : CallbackFail(c)
  \/ \E c \in DOMAIN calls : Finish(c)

SpecPath == InitPath /\ [][NextPath]_vars

\* The non-empty '/'-separated segments of p, stated by their places in p: a
\* segment starts where a character other than '/' has no such character
\* before it, and runs up to the next '/' or the end.
SegmentStarts(p) == {i \in 1..Len(p) : p[i] # "/" /\ (i = 1 \/ p[i - 1] = "/")}

NumSegments(p) == Cardinality(SegmentStarts(p))

Segment(p, k) ==
  LET first == CHOOSE i \in SegmentStarts(p) :
                 Cardinality({x \in SegmentStarts(p) : x < i}) = k - 1
      last == CHOOSE j \in first..Len(p) :
                /\ \A x \in first..j : p[x] # "/"
                /\ j = Len(p) \/ p[j + 1] = "/"
  IN SubSeq(p, first, last)

StartsWithAB(p) ==
  /\ NumSegments(p) >= 2
  /\ Segment(p, 1) = <<"a">>
  /\ Segment(p, 2) = <<"b">>

\* C7: with only path("a/b").register(cb, {ignoreAdditionalPath: true})
\* registered, navigate(p) is handled iff the first two non-empty segments of
\* p are "a" then "b", whatever slashes surround them and whatever follows;
\* with the default options, iff the non-empty segments are exactly a, b.
C7_LiteralMatch ==
  \A c \in DOMAIN calls :
    LET p == calls[c].url
        handled == calls[c].walk.handled
    IN /\ handlers = LiteralRouter(IgnoreAdditionalPath(TRUE)) =>
            /\ handled <=> StartsWithAB(p)
            /\ calls[c].pc = "returned" => (calls[c].result <=> StartsWithAB(p))
       /\ handlers = LiteralRouter(NoOptions) =>
            /\ handled <=> (StartsWithAB(p) /\ NumSegments(p) = 2)
            /\ calls[c].pc = "returned" =>
                 (calls[c].result <=> (StartsWithAB(p) /\ NumSegments(p) = 2))

C7_Witness ==
  /\ handlers = LiteralRouter(IgnoreAdditionalPath(TRUE))
  /\ \E c \in DOMAIN calls :
       /\ calls[c].pc = "returned"
       /\ calls[c].result
       /\ calls[c].url = <<"a", "/", "/", "b", "/", "a">>

\* C8: with path("a").param(idValidator).register(cb) registered, a path with
\* segments ["a", s] invokes cb once with {id: the converted s} and navigate
\* returns true when idValidator accepts s; when it rejects s, or no segment
\* follows "a", navigate returns false and cb is not invoked.
C8_ParamScenario ==
  handlers = UsersRouter =>
    \A c \in DOMAIN calls :
      LET p == calls[c].url IN
      /\ (NumSegments(p) = 2 /\ Segment(p, 1) = <<"a">> /\ IsNumeric(Segment(p, 2))) =>
            /\ calls[c].walk.invoked =
                 <<[callback |-> "cb1", nav |-> calls[c].nav,
                    params |-> [k \in {"id"} |-> NumVal(ToNumber(Segment(p, 2), 0))]]>>
            /\ calls[c].pc = "returned" => calls[c].result
      /\ (\/ NumSegments(p) = 2 /\ Segment(p, 1) = <<"a">> /\ ~IsNumeric(Segment(p, 2))
          \/ NumSegments(p) = 1 /\ Segment(p, 1) = <<"a">>) =>
            /\ calls[c].walk.invoked = <<>>
            /\ calls[c].pc = "returned" => ~calls[c].result

C8_Witness ==
  /\ handlers = UsersRouter
  /\ \E c \in DOMAIN calls :
       /\ calls[c].pc = "returned"
       /\ calls[c].result
       /\ calls[c].url = <<"/", "a", "/", "4", "4">>
       /\ calls[c].walk.invoked[1].params["id"] = NumVal(44)
  
\* C9: with path("a").multiparam(segmentsValidator).register(cb) registered,
\* a path with segments ["a", s1..sn], n >= 1, that the array validator
\* accepts invokes cb with the parameter bound to the array [s1..sn]; a path
\* with the segments ["a"] alone is not handled, cb is not invoked and the
\* validator is not consulted.
C9_MultiParamScenario ==
  handlers = FilesRouter =>
    \A c \in DOMAIN calls :
      LET p == calls[c].url
          n == NumSegments(p) - 1
      IN /\ (n >= 1 /\ Segment(p, 1) = <<"a">>
               /\ \A k \in 1..n : ~IsNumeric(Segment(p, k + 1))) =>
              calls[c].walk.invoked =
                <<[callback |-> "cb1", nav |-> calls[c].nav,
                   params |-> [k \in {"segments"} |->
                                 ArrVal([i \in 1..n |-> Segment(p, i + 1)])]]>>
         /\ (n = 0 /\ Segment(p, 1) = <<"a">>) =>
              /\ ~calls[c].walk.handled
              /\ calls[c].walk.invoked = <<>>
              /\ calls[c].walk.validated = <<>>
              /\ calls[c].pc = "returned" => ~calls[c].result

C9_Witness ==
  /\ handlers = FilesRouter
  /\ \E c \in DOMAIN calls :
       /\ calls[c].pc = "returned"
       /\ calls[c].result
       /\ calls[c].walk.invoked[1].params["segments"].a = <<<<"b">>, <<"a">>>>

\* ----------------------------------------------------- registration steps

\* router.path(p), on the Router or on a Subrouter a registration returned
RegisterPath(r, p) ==
  /\ NumEntries(handlers) + Len(thrown) < MaxEntries
  /\ handlers' = path(handlers, r, p)
  /\ UNCHANGED <<navs, currentNav, nextNav, prevNavs, calls, href, cookies, ops, thrown>>

\* router.register(callback, options)
RegisterCallback(r, callback, options) ==
  /\ NumEntries(handlers) + Len(thrown) < MaxEntries
  /\ handlers' = register(handlers, r, callback, options)
  /\ UNCHANGED <<navs, currentNav, nextNav, prevNavs, calls, href, cookies, ops, thrown>>

\* router.param(validator)
RegisterParam(r, validator) ==
  /\ NumEntries(handlers) + Len(thrown) < MaxEntries
  /\ handlers' = param(handlers, r, validator)
  /\ thrown' = IF BaseParamHandler_throws(validator)
               THEN Append(thrown, ExpectedOneValidator(validator))
               ELSE thrown
  /\ UNCHANGED <<navs, currentNav, nextNav, prevNavs, calls, href, cookies, ops>>

\* router.multiparam(validator)
RegisterMultiparam(r, validator) ==
  /\ NumEntries(handlers) + Len(thrown) < MaxEntries
  /\ handlers' = multiparam(handlers, r, validator)
  /\ thrown' = IF BaseParamHandler_throws(validator)
               THEN Append(thrown, ExpectedOneValidator(validator))
               ELSE thrown
  /\ UNCHANGED <<navs, currentNav, nextNav, prevNavs, calls, href, cookies, ops>>

\* ------------------------------------------------------- the router trees

\* A router is assembled by registration calls, then one navigate call is
\* routed through it.
RoutePatterns == {<<"a">>, <<"a", "/", "b">>}

RouteCallbacks == {"cb1", "cb2"}

RouteOptions == {NoOptions, IgnoreAdditionalPath(TRUE)}

RouteUrls ==
  {<<"/">>, <<"/", "a">>, <<"/", "b">>, <<"/", "4">>, <<"/", "a", "/", "b">>,
   <<"/", "a", "/", "4">>, <<"/", "a", "/", "b", "/", "a">>, <<"/", "4", "/", "a">>,
   <<"/", "4", "/", "2">>}

InitRoute ==
  /\ handlers = EmptyRouter
  /\ navs = <<>>
  /\ currentNav = Null
  /\ nextNav = Null
  /\ prevNavs = {}
  /\ calls = <<>>
  /\ href = Origin \o <<"/">>
  /\ cookies = EmptyObject
  /\ ops = <<>>
  /\ thrown = <<>>

NextRoute ==
  \/ FirstCall /\ \E r \in DOMAIN handlers, p \in RoutePatterns : RegisterPath(r, p)
  \/ FirstCall /\ \E r \in DOMAIN handlers, cb \in RouteCallbacks, o \in RouteOptions :
                    RegisterCallback(r, cb, o)
  \/ FirstCall /\ \E r \in DOMAIN handlers : RegisterParam(r, idValidator)
  \/ FirstCall /\ \E r \in DOMAIN handlers : RegisterMultiparam(r, segmentsValidator)
  \/ FirstCall /\ \E url \in RouteUrls : Navigate(url)
  \/ \E c \in DOMAIN calls : CallbackDone(c)
  \/ \E c \in DOMAIN calls : CallbackFail(c)
  \/ \E c \in DOMAIN calls : Finish(c)

SpecRoute == InitRoute /\ [][NextRoute]_vars

\* C10: the entries of a router are tried in registration order, from the
\* first on, and the first that succeeds wins: no entry of a router is
\* attempted after one of its earlier siblings succeeded, at most one
\* callback runs, and it is the callback of the last entry attempted; with
\* path("a").register(cb1) then register(cb2), navigate("/a") invokes cb1 and
\* never cb2.
C10_FirstMatchWins ==
  \A c \in DOMAIN calls :
    LET A == calls[c].walk.attempts
        invoked == calls[c].walk.invoked
    IN /\ \A i, j \in DOMAIN A :
            (i < j /\ A[i].router = A[j].router) =>
               (A[i].index < A[j].index /\ ~A[i].ok)
       /\ \A j \in DOMAIN A :
            \/ A[j].index = 1
            \/ \E i \in 1..(j - 1) :
                 A[i].router = A[j].router /\ A[i].index = A[j].index - 1
       /\ Len(invoked) <= 1
       /\ Len(invoked) = 1 =>
            /\ A[Len(A)].ok
            /\ handlers[A[Len(A)].router][A[Len(A)].index].kind = "callback"
            /\ handlers[A[Len(A)].router][A[Len(A)].index].callback = invoked[1].callback
       /\ (handlers = SiblingsRouter /\ calls[c].url = <<"/", "a">>) =>
            (Len(invoked) = 1 /\ invoked[1].callback = "cb1")

C10_Witness ==
  /\ handlers = SiblingsRouter
  /\ \E c \in DOMAIN calls :
       /\ calls[c].pc = "returned"
       /\ calls[c].result
       /\ calls[c].url = <<"/", "a">>
       /\ calls[c].walk.invoked[1].callback = "cb1"

\* --------------------------------------------------------- the query strings

\* characters of a URL handed to navigate in the query scenarios
MaxQueryLen == 5

QueryAlphabet == {"?", "&", "=", "a", "b"}

QueryUrls == UNION {[1..n -> QueryAlphabet] : n \in 0..MaxQueryLen}

\* register(cb1, {ignoreAdditionalPath: true}): every path is handled
CatchAllRouter == register(EmptyRouter, Root, "cb1", IgnoreAdditionalPath(TRUE))

InitQuery ==
  /\ handlers = CatchAllRouter
  /\ navs = <<>>
  /\ currentNav = Null
  /\ nextNav = Null
  /\ prevNavs = {}
  /\ calls = <<>>
  /\ href = Origin \o <<"/">>
  /\ cookies = EmptyObject
  /\ ops = <<>>
  /\ thrown = <<>>

NextQuery ==
  \/ FirstCall /\ \E url \in QueryUrls : Navigate(url)
  \/ \E c \in DOMAIN calls : CallbackDone(c)
  \/ \E c \in DOMAIN calls : CallbackFail(c)
  \/ \E c \in DOMAIN calls : Finish(c)

SpecQuery == InitQuery /\ [][NextQuery]_vars

\* The query string of u: what follows its first '?'.
QueryStringOf(u) == SubSeq(u, IndexOf(u, "?") + 2, Len(u))

\* The '&'-separated pairs of the query string of u.
QueryPairsOf(u) == split(QueryStringOf(u), "&")

\* The key of a pair: what precedes its first '=', or the whole pair.
PairKey(pair) ==
  IF IndexOf(pair, "=") >= 0 THEN SubSeq(pair, 1, IndexOf(pair, "=")) ELSE pair

\* The value of a pair: what follows its first '=', or the empty string.
PairValue(pair) ==
  IF IndexOf(pair, "=") >= 0 THEN SubSeq(pair, IndexOf(pair, "=") + 2, Len(pair)) ELSE <<>>

\* The value of a pair read up to its second '=' only.
PairValueShort(pair) ==
  LET v == PairValue(pair)
  IN IF IndexOf(v, "=") >= 0 THEN SubSeq(v, 1, IndexOf(v, "=")) ELSE v

\* The last pair of u whose key is k.
LastPairWithKey(u, k) ==
  LET pairs == QueryPairsOf(u)
      i == CHOOSE x \in DOMAIN pairs :
             /\ decodeURIComponent(PairKey(pairs[x])) = k
             /\ \A y \in DOMAIN pairs :
                  decodeURIComponent(PairKey(pairs[y])) = k => y <= x
  IN pairs[i]

\* C11: for a URL containing '?', the keys of createFromUrl(url).query are
\* exactly the keys of the '&'-separated pairs of its query string, and each
\* key maps to the value of the last pair with that key, the empty string
\* when that pair has no '=' (for a pair with several '=' either reading of
\* its value is accepted here).
C11_QueryPairs ==
  \A c \in DOMAIN calls :
    (calls[c].nav # Null /\ IndexOf(calls[c].url, "?") >= 0) =>
      LET u == calls[c].url
          query == navs[calls[c].nav].query
          pairs == QueryPairsOf(u)
      IN /\ DOMAIN query = {decodeURIComponent(PairKey(pairs[i])) : i \in DOMAIN pairs}
         /\ \A k \in DOMAIN query :
              query[k] \in {decodeURIComponent(PairValue(LastPairWithKey(u, k))),
                            decodeURIComponent(PairValueShort(LastPairWithKey(u, k)))}

\* ------------------------------------------- claims on adapter navigations

\* C12: a navigation that the history adapter's navigatedEvent delivered (a
\* stored Navigation replayed) and that is committed sets currentNav and
\* fires navigated, but setUrl is not called for it.
C12_ReplayedNotPushed ==
  \A c \in DOMAIN calls :
    (calls[c].origin = "adapter" /\ Committed(c)) =>
      /\ \E i \in DOMAIN calls[c].effects : calls[c].effects[i].type = "navigated"
      /\ \A i \in DOMAIN calls[c].effects : calls[c].effects[i].type # "setUrl"

\* ------------------------------------------ the fallback adapter's behaviours

\* calls made on the fallback adapter per behaviour
MaxOps == 4

FallbackUrls == {<<"/">>, <<"/", "a">>, <<"/", "b">>}

\* a location the page was opened at that no setUrl produced
LandingUrls == {<<"/", "a", "|", "b">>}

\* adapter.setUrl(nav) for the Navigation of a URL string
SetUrl(url) ==
  /\ Len(ops) < MaxOps
  /\ LET r == FallbackBrowserApi_setUrl(href, cookies, createFromUrl(url))
     IN /\ href' = r.href
        /\ cookies' = r.cookies
        /\ ops' = Append(ops, [op |-> "setUrl", url |-> createFromUrl(url).url,
                               before |-> <<href, cookies>>])
  /\ UNCHANGED <<handlers, navs, currentNav, nextNav, prevNavs, calls, thrown>>

\* adapter.back()
Back ==
  /\ Len(ops) < MaxOps
  /\ LET r == FallbackBrowserApi_back(href, cookies)
     IN /\ href' = r.href
        /\ cookies' = r.cookies
        /\ ops' = Append(ops, [op |-> "back", url |-> <<>>, before |-> <<href, cookies>>])
  /\ UNCHANGED <<handlers, navs, currentNav, nextNav, prevNavs, calls, thrown>>

\* adapter.clearHistory(currentNav)
ClearHistory ==
  /\ Len(ops) < MaxOps
  /\ LET r == FallbackBrowserApi_clearHistory(href, cookies)
     IN /\ href' = r.href
        /\ cookies' = r.cookies
        /\ ops' = Append(ops, [op |-> "clearHistory", url |-> <<>>,
                               before |-> <<href, cookies>>])
  /\ UNCHANGED <<handlers, navs, currentNav, nextNav, prevNavs, calls, thrown>>

InitFallback ==
  /\ handlers = EmptyRouter
  /\ navs = <<>>
  /\ currentNav = Null
  /\ nextNav = Null
  /\ prevNavs = {}
  /\ calls = <<>>
  /\ href \in {Origin \o u : u \in FallbackUrls \cup LandingUrls}
  /\ cookies = EmptyObject
  /\ ops = <<>>
  /\ thrown = <<>>

NextFallback ==
  \/ \E url \in FallbackUrls : SetUrl(url)
  \/ Back
  \/ ClearHistory

SpecFallback == InitFallback /\ [][NextFallback]_vars

noNameValidator == [names |-> <<>>, kind |-> "numeric"]
twoNameValidator == [names |-> <<"id", "segments">>, kind |-> "numeric"]

RegisterValidators == {idValidator, segmentsValidator, noNameValidator, twoNameValidator}

\* a literal with one component, and one with none
RegisterPatterns == {<<"a">>, <<"/">>}

RegisterUrls == {<<"/">>, <<"/", "a">>, <<"/", "4">>}

NextRegister ==
  \/ FirstCall /\ \E r \in DOMAIN handlers, p \in RegisterPatterns : RegisterPath(r, p)
  \/ FirstCall /\ \E r \in DOMAIN handlers : RegisterCallback(r, "cb1", NoOptions)
  \/ FirstCall /\ \E r \in DOMAIN handlers, v \in RegisterValidators : RegisterParam(r, v)
  \/ FirstCall /\ \E r \in DOMAIN handlers, v \in RegisterValidators :
                    RegisterMultiparam(r, v)
  \/ FirstCall /\ \E url \in RegisterUrls : Navigate(url)
  \/ \E c \in DOMAIN calls : CallbackDone(c)
  \/ \E c \in DOMAIN calls : CallbackFail(c)
  \/ \E c \in DOMAIN calls : Finish(c)

SpecRegister == InitRoute /\ [][NextRegister]_vars

\* C14: a param or multiparam registration whose validator declares no name
\* or more than one throws, and a registration that throws leaves every
\* router's entries as they were; every param and multiparam entry a router
\* holds was registered with exactly one name.
C14_BadValidatorThrows ==
  [][/\ Len(thrown') > Len(thrown) =>
          /\ handlers' = handlers
          /\ thrown'[Len(thrown')].got # 1
          /\ \A u \in RegisterUrls :
               Router_route(handlers', 1, u) = Router_route(handlers, 1, u)
     /\ \A r \in DOMAIN handlers' : \A i \in DOMAIN handlers'[r] :
          handlers'[r][i].kind \in {"param", "multiparam"} =>
            Len(keysOf(handlers'[r][i].validator)) = 1]_vars

\* both kinds of bad validator were refused, and the router then routed
C14_Witness ==
  /\ \E i \in DOMAIN thrown : thrown[i].got = 0
  /\ \E i \in DOMAIN thrown : thrown[i].got = 2
  /\ NumEntries(handlers) = 1
  /\ \E c \in DOMAIN calls : calls[c].pc = "returned" /\ calls[c].result

\* ------------------------------------------------- claims on failing callbacks

\* C15: when the callback invoked for a navigation throws or rejects, the
\* navigate call ends with that failure and commits nothing: the step leaves
\* currentNav and the adapter as they were, the call fires nothing, and it
\* never resumes.
C15_FailureNotCommitted ==
  [][\A c \in DOMAIN calls :
       /\ (~calls[c].rejected /\ calls'[c].rejected) =>
             /\ calls'[c].pc = "failed"
             /\ currentNav' = currentNav
             /\ prevNavs' = prevNavs
       /\ calls[c].rejected =>
             /\ calls'[c].pc = "failed"
             /\ calls'[c].effects = <<>>
             /\ ~calls'[c].result]_vars

\* a call failed after an earlier call had committed another Navigation
C15_Witness ==
  \E c \in DOMAIN calls :
    /\ calls[c].rejected
    /\ calls[c].pc = "failed"
    /\ currentNav # Null
    /\ currentNav # calls[c].nav
    /\ calls[c].nav \notin prevNavs

\* ------------------------------------------------ claims on the pending pointer

\* the Navigations of the calls whose route walk has started and not finished
InFlight == {calls[c].nav : c \in {d \in DOMAIN calls : Routing(d)}}

\* C16: among the Navigations whose route walk has started and not finished,
\* at most one has cancelled = false.
C16_OneLiveInFlight ==
  Cardinality({n \in InFlight : ~navs[n].cancelled}) <= 1

\* the calls that are between the start and the end of their route walk
RoutingCalls == {c \in DOMAIN calls : Routing(c)}

\* C17: the pending pointer is null when no navigate call is routing,
\* whatever the outcome of the earlier calls, and while some call is routing
\* it refers to the Navigation of the most recently issued call that is
\* still routing.
C17_SetThenClear ==
  IF RoutingCalls = {}
  THEN nextNav = Null
  ELSE nextNav = calls[CHOOSE c \in RoutingCalls : \A d \in RoutingCalls : d <= c].nav

\* ------------------------------------------------- claims on the route walk

\* the non-empty segments of p, in order
SegmentsOf(p) == [k \in 1..NumSegments(p) |-> Segment(p, k)]

\* whether the validator of a parameter stage accepts what the stage hands it
Accepted(e, segs) ==
  IF e.validator.kind = "numeric"
  THEN e.kind = "param" /\ IsNumeric(segs[1])
  ELSE e.kind = "multiparam" /\ \A i \in DOMAIN segs : ~IsNumeric(segs[i])

RECURSIVE ChainAccepts(_, _, _)
\* Some chain of entries from router r down to a terminal callback accepts
\* the segments segs.
ChainAccepts(h, r, segs) ==
  \E i \in DOMAIN h[r] :
    LET e == h[r][i]
        n == Len(e.pathComponents)
    IN CASE e.kind = "callback" -> e.ignoreAdditionalPath \/ segs = <<>>
         [] e.kind = "path" ->
              /\ Len(segs) >= n
              /\ SubSeq(segs, 1, n) = e.pathComponents
              /\ ChainAccepts(h, e.next, SubSeq(segs, n + 1, Len(segs)))
         [] e.kind = "param" ->
              /\ segs # <<>>
              /\ Accepted(e, segs)
              /\ ChainAccepts(h, e.next, Tail(segs))
         [] OTHER ->
              /\ segs # <<>>
              /\ Accepted(e, segs)
              /\ ChainAccepts(h, e.next, <<>>)

\* C18: when an entry fails, whether at once or after delegating to its
\* nested router, its router goes on to the next entry, and every entry of a
\* router is attempted with the same remaining segments and parameters; the
\* walk is handled iff some chain of entries down to a callback accepts the
\* path.
C18_SiblingFallthrough ==
  \A c \in DOMAIN calls :
    LET A == calls[c].walk.attempts IN
    /\ \A i, j \in DOMAIN A :
         A[i].router = A[j].router =>
           (A[i].subpath = A[j].subpath /\ A[i].params = A[j].params)
    /\ \A i \in DOMAIN A :
         (~A[i].ok /\ A[i].index < Len(handlers[A[i].router])) =>
           \E j \in DOMAIN A :
             j > i /\ A[j].router = A[i].router /\ A[j].index = A[i].index + 1
    /\ calls[c].nav # Null =>
         (calls[c].walk.handled <=> ChainAccepts(handlers, Root, SegmentsOf(calls[c].url)))

\* an entry consumed a segment and delegated, its nested router failed, and
\* the next sibling was attempted with the segments intact and succeeded
C18_Witness ==
  \E c \in DOMAIN calls :
    LET A == calls[c].walk.attempts IN
    \E i, k, j \in DOMAIN A :
      /\ i < k /\ k < j
      /\ handlers[A[i].router][A[i].index].kind \in {"path", "param"}
      /\ A[k].router = handlers[A[i].router][A[i].index].next
      /\ Len(A[k].subpath) < Len(A[i].subpath)
      /\ ~A[i].ok
      /\ A[j].router = A[i].router
      /\ A[j].index = A[i].index + 1
      /\ A[j].subpath = A[i].subpath
      /\ A[j].ok
      /\ calls[c].pc = "returned"
      /\ calls[c].result

\* C19: a navigate call invokes at most one callback; once a callback is
\* invoked no further entry is attempted; the call returns true iff it
\* invoked a callback and that callback completed, and a call whose callback
\* failed returns nothing.
C19_OneCallback ==
  \A c \in DOMAIN calls :
    LET A == calls[c].walk.attempts
        invoked == calls[c].walk.invoked
    IN /\ Len(invoked) <= 1
       /\ calls[c].walk.handled <=> Len(invoked) = 1
       /\ Len(invoked) = 1 =>
            /\ handlers[A[Len(A)].router][A[Len(A)].index].kind = "callback"
            /\ \A i \in DOMAIN A :
                 handlers[A[i].router][A[i].index].kind = "callback" =>
                   (A[i].ok <=> i = Len(A))
       /\ calls[c].pc = "returned" => (calls[c].result <=> Len(invoked) = 1)
       /\ calls[c].pc \in {"callback", "failed"} => Len(invoked) = 1
       /\ calls[c].pc = "failed" => ~calls[c].result

\* a callback fired although a sibling registered after it would have
\* accepted the same segments
C19_Witness ==
  \E c \in DOMAIN calls :
    LET A == calls[c].walk.attempts IN
    /\ calls[c].pc = "returned"
    /\ calls[c].result
    /\ Len(calls[c].walk.invoked) = 1
    /\ A[Len(A)].index < Len(handlers[A[Len(A)].router])
    /\ LET next == handlers[A[Len(A)].router][A[Len(A)].index + 1]
       IN next.kind = "callback" /\ next.ignoreAdditionalPath

\* C20: a callback entry registered with the default options fires iff no
\* segment remains when it is reached; registered with ignoreAdditionalPath
\* = true it fires whenever it is reached; in both cases the callback gets
\* the parameters the entry was handed, whatever segments are left over.
C20_IgnoreAdditionalPath ==
  \A c \in DOMAIN calls :
    LET A == calls[c].walk.attempts
        invoked == calls[c].walk.invoked
    IN \A i \in DOMAIN A :
         LET e == handlers[A[i].router][A[i].index] IN
         e.kind = "callback" =>
           /\ A[i].ok <=> (e.ignoreAdditionalPath \/ A[i].subpath = <<>>)
           /\ A[i].ok =>
                invoked = <<[callback |-> e.callback, nav |-> calls[c].nav,
                             params |-> A[i].params]>>

\* one walk reached a default callback with a segment left (it did not
\* fire), then an ignoreAdditionalPath callback with a segment left and a
\* validated parameter (it fired)
C20_Witness ==
  \E c \in DOMAIN calls :
    LET A == calls[c].walk.attempts IN
    /\ calls[c].pc = "returned"
    /\ calls[c].result
    /\ \E i, j \in DOMAIN A :
         /\ handlers[A[i].router][A[i].index].kind = "callback"
         /\ ~handlers[A[i].router][A[i].index].ignoreAdditionalPath
         /\ A[i].subpath # <<>>
         /\ ~A[i].ok
         /\ handlers[A[j].router][A[j].index].kind = "callback"
         /\ handlers[A[j].router][A[j].index].ignoreAdditionalPath
         /\ A[j].subpath # <<>>
         /\ A[j].params # EmptyObject
         /\ A[j].ok

\* ------------------------------------------------- claims on segmentation

RECURSIVE SlashJoined(_)
\* the path "/s1/s2/../sn" of the segments segs
SlashJoined(segs) ==
  IF segs = <<>> THEN <<>> ELSE <<"/">> \o Head(segs) \o SlashJoined(Tail(segs))

\* C21: the routing outcome of a path depends on its sequence of non-empty
\* segments only: it is the outcome of the path "/s1/../sn" of those segments,
\* so paths that differ in leading, trailing or repeated slashes invoke the
\* same callback with the same parameters, or are all unhandled.
C21_SlashesIgnored ==
  \A c \in DOMAIN calls :
    calls[c].nav # Null =>
      LET canonical == Router_route(handlers, calls[c].nav,
                                    SlashJoined(SegmentsOf(calls[c].url)))
      IN /\ calls[c].walk.handled = canonical.handled
         /\ calls[c].walk.invoked = canonical.invoked
         /\ calls[c].pc = "returned" => calls[c].result = canonical.handled

\* a path with a doubled, a missing leading and a trailing slash was handled
C21_Witness ==
  \E c \in DOMAIN calls :
    /\ calls[c].pc = "returned"
    /\ calls[c].result
    /\ calls[c].url = <<"a", "/", "/", "4", "/">>
    /\ calls[c].walk.invoked[1].params["id"] = NumVal(4)

\* --------------------------------------------- claims on the multi-parameter

RECURSIVE Scope(_, _)
\* the router r and the routers nested under its entries
Scope(h, r) ==
  {r} \cup UNION {Scope(h, h[r][i].next) : i \in {x \in DOMAIN h[r] : h[r][x].kind # "callback"}}

\* a stage that accepts only when at least one segment is left
NeedsSegment(e) ==
  \/ e.kind \in {"param", "multiparam"}
  \/ e.kind = "path" /\ Len(e.pathComponents) >= 1

\* C22: every entry under a multiparam entry is reached with no segment
\* left; there a literal with one or more components, a param and a
\* multiparam never match, and only callbacks, directly or behind literals
\* with no component, fire.
C22_NothingLeftAfterMultiparam ==
  \A c \in DOMAIN calls :
    LET A == calls[c].walk.attempts IN
    \A i, j \in DOMAIN A :
      LET e == handlers[A[i].router][A[i].index]
          under == handlers[A[j].router][A[j].index]
      IN (e.kind = "multiparam" /\ A[j].router \in Scope(handlers, e.next)) =>
           /\ A[j].subpath = <<>>
           /\ NeedsSegment(under) => ~A[j].ok
           /\ A[j].ok => (\/ under.kind = "callback"
                          \/ under.kind = "path" /\ under.pathComponents = <<>>)

\* under a multiparam that accepted, a one-component literal was attempted
\* and failed, then a callback fired with the array
C22_Witness ==
  \E c \in DOMAIN calls :
    LET A == calls[c].walk.attempts IN
    /\ calls[c].pc = "returned"
    /\ calls[c].result
    /\ Len(A) = 3
    /\ handlers[A[1].router][A[1].index].kind = "multiparam"
    /\ A[1].subpath = <<<<"a">>>>
    /\ handlers[A[2].router][A[2].index].kind = "path"
    /\ handlers[A[2].router][A[2].index].pathComponents = <<<<"a">>>>
    /\ ~A[2].ok
    /\ handlers[A[3].router][A[3].index].kind = "callback"
    /\ A[3].params = [k \in {"segments"} |-> ArrVal(<<<<"a">>>>)]

\* a callback behind a literal with no component fired under a multiparam
C22_ZeroComponentLiteral ==
  \E c \in DOMAIN calls :
    LET A == calls[c].walk.attempts IN
    /\ calls[c].walk.handled
    /\ Len(A) = 3
    /\ handlers[A[1].router][A[1].index].kind = "multiparam"
    /\ handlers[A[2].router][A[2].index].kind = "path"
    /\ handlers[A[2].router][A[2].index].pathComponents = <<>>
    /\ A[2].ok

\* ------------------------------------------------- claims on createFromUrl

\* C23: createFromUrl splits the URL at its first '?' only and each pair at
\* its first '=' only: path is what precedes the first '?', the pairs are
\* those of everything after it, later '?' included, and the value of a pair
\* is everything after its first '='; a URL without '?' has path = the URL
\* and an empty query.
C23_FirstSeparatorOnly ==
  \A c \in DOMAIN calls :
    calls[c].nav # Null =>
      LET u == calls[c].url
          n == navs[calls[c].nav]
          pairs == QueryPairsOf(u)
      IN IF IndexOf(u, "?") >= 0
         THEN /\ n.path = SubSeq(u, 1, IndexOf(u, "?"))
              /\ DOMAIN n.query = {decodeURIComponent(PairKey(pairs[i])) : i \in DOMAIN pairs}
              /\ \A k \in DOMAIN n.query :
                   n.query[k] = decodeURIComponent(PairValue(LastPairWithKey(u, k)))
         ELSE /\ n.path = u
              /\ n.query = EmptyObject

\* the same, for the URLs that have no second '?': only the reading of a
\* pair with several '=' is at stake
C23_SeveralEquals ==
  \A c \in DOMAIN calls :
    (calls[c].nav # Null /\ IndexOf(calls[c].url, "?") >= 0
       /\ IndexOf(QueryStringOf(calls[c].url), "?") < 0) =>
      \A k \in DOMAIN navs[calls[c].nav].query :
        navs[calls[c].nav].query[k] =
          decodeURIComponent(PairValue(LastPairWithKey(calls[c].url, k)))

\* ------------------------------------------- claims on the fallback adapter

\* the adapter call a step makes, and the call before it
ThisOp == ops'[Len(ops')]
LastOp == ops[Len(ops)]

\* what the stack discipline asks of a step that makes an adapter call
StackStep ==
  LET hist == getHistory(cookies)
      here == currentPath(href)
  IN /\ (ThisOp.op = "setUrl" /\ ThisOp.url # here) =>
          /\ getHistory(cookies') = Append(hist, here)
          /\ currentPath(href') = ThisOp.url
     /\ (ThisOp.op = "back" /\ hist # <<>>) =>
          /\ currentPath(href') = hist[Len(hist)]
          /\ getHistory(cookies') = SubSeq(hist, 1, Len(hist) - 1)
     /\ (ThisOp.op = "back" /\ hist = <<>>) =>
          /\ href' = href
          /\ cookies' = cookies
     /\ (ThisOp.op = "back" /\ Len(ops) >= 1 /\ LastOp.op = "setUrl"
           /\ LastOp.url # currentPath(LastOp.before[1])) =>
          /\ href' = LastOp.before[1]
          /\ cookies' = LastOp.before[2]
     /\ ThisOp.op = "clearHistory" =>
          /\ href' = href
          /\ getHistory(cookies') = <<>>
     /\ FALLBACK_COOKIE_KEY \in DOMAIN cookies' <=> getHistory(cookies') # <<>>

\* C24: setUrl to a URL other than the location pushes the location and
\* moves to the target; back pops the top entry and moves to it, so that
\* setUrl followed by back restores the location and the stack; back on an
\* empty stack changes nothing; the cookie is there exactly while the stack
\* is not empty.
C24_StackDiscipline ==
  [][Len(ops') = Len(ops) + 1 => StackStep]_vars

\* no location of the behaviour so far contains the stack's separator
NoPipeSoFar ==
  /\ IndexOf(href, "|") < 0
  /\ \A i \in DOMAIN ops : IndexOf(ops[i].before[1], "|") < 0

\* the same discipline for the behaviours none of whose locations contains '|'
C24_StackDisciplineWithoutPipe ==
  [][(Len(ops') = Len(ops) + 1 /\ NoPipeSoFar) => StackStep]_vars

\* setUrl moved from a location without '|' and back restored it
C24_RestoredWithoutPipe ==
  /\ NoPipeSoFar
  /\ Len(ops) >= 2
  /\ ops[Len(ops)].op = "back"
  /\ ops[Len(ops) - 1].op = "setUrl"
  /\ ops[Len(ops) - 1].before = <<href, cookies>>
  /\ ops[Len(ops)].before[1] # href
  /\ getHistory(cookies) # <<>>

\* ------------------------------------------ claims on replayed Navigations

\* C25: currentNav is null or a Navigation whose cancelled flag is false.
C25_CurrentNavNotCancelled ==
  currentNav # Null => ~navs[currentNav].cancelled

\* C26: a navigate call the adapter's navigatedEvent made, whose path matched
\* a route and during whose route walk no other navigate call was issued,
\* has committed when it returns, also when its Navigation was superseded in
\* an earlier call.
C26_ReplayCommits ==
  \A c \in DOMAIN calls :
    (/\ calls[c].origin = "adapter"
     /\ calls[c].pc = "returned"
     /\ Matched(c)
     /\ ~calls[c].superseded) =>
       (Committed(c) /\ currentNav = calls[c].nav)

\* the stored Navigation was committed, replayed and superseded, and is
\* replayed again with no other call in the way
C26_SupersededThenReplayed ==
  /\ Len(calls) = 4
  /\ calls[1].origin = "caller" /\ Committed(1)
  /\ calls[2].origin = "adapter" /\ calls[2].nav = calls[1].nav /\ calls[2].superseded
  /\ calls[3].pc = "returned"
  /\ calls[4].origin = "adapter" /\ calls[4].nav = calls[1].nav
  /\ ~calls[4].superseded
  /\ calls[4].pc = "returned"
  /\ ~calls[2].rejected /\ ~calls[3].rejected

\* ------------------------------------------------ claims on the parameters

\* what the parameter stage e binds when it accepts the segments segs
Bound(e, segs) ==
  IF e.kind = "param"
  THEN [k \in {e.key} |-> NumVal(ToNumber(segs[1], 0))]
  ELSE [k \in {e.key} |-> ArrVal(segs)]

RECURSIVE MergedUpTo(_, _, _)
\* the values bound by the parameter stages among the first n attempts of A
\* that succeeded (the stages of the chain that reached the callback), a
\* later one replacing an earlier one of the same name
MergedUpTo(h, A, n) ==
  IF n = 0 THEN EmptyObject
  ELSE LET e == h[A[n].router][A[n].index]
           before == MergedUpTo(h, A, n - 1)
       IN IF A[n].ok /\ e.kind \in {"param", "multiparam"}
          THEN [k \in (DOMAIN before) \cup {e.key} |->
                  IF k = e.key THEN Bound(e, A[n].subpath)[k] ELSE before[k]]
          ELSE before

\* C27: the callback gets exactly the values bound by the parameter stages
\* of its own chain, merged in chain order; a value validated in a branch
\* that failed is in no parameter set handed on afterwards; the entries of a
\* router are all handed the same parameter set, the root's the empty one.
C27_ParamsOfOwnChain ==
  \A c \in DOMAIN calls :
    LET A == calls[c].walk.attempts
        invoked == calls[c].walk.invoked
    IN /\ Len(invoked) = 1 => invoked[1].params = MergedUpTo(handlers, A, Len(A))
       /\ \A i \in DOMAIN A :
            /\ A[i].router = Root => A[i].params = EmptyObject
            /\ \A j \in DOMAIN A :
                 A[j].router = A[i].router => A[j].params = A[i].params
            /\ \A j \in DOMAIN A :
                 (/\ j > i
                  /\ A[j].router = handlers[A[i].router][A[i].index].next
                  /\ handlers[A[i].router][A[i].index].kind = "path") =>
                   A[j].params = A[i].params

\* two param stages of the same name on one chain: the later value is kept
C27_Witness ==
  \E c \in DOMAIN calls :
    /\ calls[c].pc = "returned"
    /\ calls[c].result
    /\ calls[c].url = <<"/", "4", "/", "2">>
    /\ Len(calls[c].walk.validated) = 2
    /\ calls[c].walk.invoked[1].params = [k \in {"id"} |-> NumVal(2)]

\* a param stage validated a value, its branch failed, and the sibling's
\* callback got a parameter set without it
C27_SiblingValueDropped ==
  \E c \in DOMAIN calls :
    /\ calls[c].walk.handled
    /\ Len(calls[c].walk.validated) = 1
    /\ calls[c].walk.invoked[1].params = EmptyObject

====
